---- MODULE Spec2Model ----
(***************************************************************************)
(* Model of Software/Python/Examples/Find Hole/findhole.py: the GoPiGo     *)
(* "find hole" navigation routine.  The driver (main, move, scan_room,     *)
(* turn_to) is a state machine over the position pc; findholes,            *)
(* verify_holes, calc_xy and calc_gap are operators.                       *)
(*                                                                         *)
(* Conventions.  The file is Python 2 (python shebang, star imports of the *)
(* gopigo library): "/" on two ints is floor division, and range() given a *)
(* float step either truncates it to an int (Python up to 2.6) or raises   *)
(* TypeError (Python 2.7); the model allows both.  An exception nothing    *)
(* catches ends the program at pc = "raised".  Floating-point geometry is  *)
(* held in fixed point: a coordinate or a chord length is an integer       *)
(* number of 1/SCALE cm.  A reading is <<angle, dist>>, a gap is           *)
(* <<middle_ang, gap>>, a command is <<function, argument>>.               *)
(***************************************************************************)
EXTENDS Integers, Sequences, FiniteSets, TLC

\* ------------------------------------------------------------------------
\* Program constants (findhole.py lines 20-23)
STOP_DIST == 20
SAMPLES == 2
INF == 250
REPEAT == 3

\* Fixed-point denominator of coordinates and chord lengths.
SCALE == 64

\* Values CHASS_WID (imported from control, line 17) is drawn from, in cm.
ChassisWidths == {10, 15, 20}

\* ------------------------------------------------------------------------
\* Bounds of the model
MaxLen == 9        \* longest sweep handed to findholes on its own
MaxHoles == 2      \* longest list of runs handed to verify_holes on its own

\* round(SCALE * cos(a degrees)) and round(SCALE * sin(a degrees)), a = 0..180
CosTable ==
  <<
     64, 64, 64, 64, 64, 64, 64, 64, 63, 63, 63, 63, 63, 62, 62,
     62, 62, 61, 61, 61, 60, 60, 59, 59, 58, 58, 58, 57, 57, 56,
     55, 55, 54, 54, 53, 52, 52, 51, 50, 50, 49, 48, 48, 47, 46,
     45, 44, 44, 43, 42, 41, 40, 39, 39, 38, 37, 36, 35, 34, 33,
     32, 31, 30, 29, 28, 27, 26, 25, 24, 23, 22, 21, 20, 19, 18,
     17, 15, 14, 13, 12, 11, 10, 9, 8, 7, 6, 4, 3, 2, 1,
     0, -1, -2, -3, -4, -6, -7, -8, -9, -10, -11, -12, -13, -14, -15,
     -17, -18, -19, -20, -21, -22, -23, -24, -25, -26, -27, -28, -29, -30, -31,
     -32, -33, -34, -35, -36, -37, -38, -39, -39, -40, -41, -42, -43, -44, -44,
     -45, -46, -47, -48, -48, -49, -50, -50, -51, -52, -52, -53, -54, -54, -55,
     -55, -56, -57, -57, -58, -58, -58, -59, -59, -60, -60, -61, -61, -61, -62,
     -62, -62, -62, -63, -63, -63, -63, -63, -64, -64, -64, -64, -64, -64, -64,
     -64
  >>

SinTable ==
  <<
     0, 1, 2, 3, 4, 6, 7, 8, 9, 10, 11, 12, 13, 14, 15,
     17, 18, 19, 20, 21, 22, 23, 24, 25, 26, 27, 28, 29, 30, 31,
     32, 33, 34, 35, 36, 37, 38, 39, 39, 40, 41, 42, 43, 44, 44,
     45, 46, 47, 48, 48, 49, 50, 50, 51, 52, 52, 53, 54, 54, 55,
     55, 56, 57, 57, 58, 58, 58, 59, 59, 60, 60, 61, 61, 61, 62,
     62, 62, 62, 63, 63, 63, 63, 63, 64, 64, 64, 64, 64, 64, 64,
     64, 64, 64, 64, 64, 64, 64, 64, 63, 63, 63, 63, 63, 62, 62,
     62, 62, 61, 61, 61, 60, 60, 59, 59, 58, 58, 58, 57, 57, 56,
     55, 55, 54, 54, 53, 52, 52, 51, 50, 50, 49, 48, 48, 47, 46,
     45, 44, 44, 43, 42, 41, 40, 39, 39, 38, 37, 36, 35, 34, 33,
     32, 31, 30, 29, 28, 27, 26, 25, 24, 23, 22, 21, 20, 19, 18,
     17, 15, 14, 13, 12, 11, 10, 9, 8, 7, 6, 4, 3, 2, 1,
     0
  >>

VARIABLES
  pc,         \* position of the program
  CHASS_WID,  \* chassis width constant imported from control
  x,          \* main: loop variable of "for x in range(REPEAT)"
  dist,       \* last value returned by us_dist
  ang,        \* scan_room: current angle of the sweep
  buf,        \* scan_room: mapped samples of the current angle
  ret,        \* scan_room: readings recorded so far
  raw,        \* history: raw samples taken at each angle of the current scan
  readings,   \* main: the sweep returned by scan_room
  holes,      \* main: result of findholes
  gaps,       \* main: result of verify_holes
  angle,      \* turn_to: its argument
  cmds,       \* history: actuator commands issued, in order
  reading,    \* calc_xy: its argument, an (angle, distance) tuple
  proj,       \* calc_xy: its result
  chord       \* calc_gap: its result

\* the variables of the geometry functions called on their own
geom == <<reading, proj, chord>>

vars == <<pc, CHASS_WID, x, dist, ang, buf, ret, raw, readings, holes, gaps, angle, cmds, geom>>

\* ------------------------------------------------------------------------
\* Helpers

RECURSIVE isqrt_search(_, _, _)
isqrt_search(n, lo, hi) ==
  IF lo >= hi THEN lo
  ELSE LET mid == (lo + hi + 1) \div 2
       IN IF mid * mid <= n THEN isqrt_search(n, mid, hi)
                            ELSE isqrt_search(n, lo, mid - 1)

\* floor of the square root of n, 0 <= n < 2^31
isqrt(n) == isqrt_search(n, 0, 46340)

RECURSIVE fsum(_)
fsum(s) == IF s = <<>> THEN 0 ELSE Head(s) + fsum(Tail(s))

last(s) == s[Len(s)]

\* ------------------------------------------------------------------------
\* calc_xy (lines 133-143): x = d*cos(radians(a)), y = d*sin(radians(a)),
\* in 1/SCALE cm.
calc_xy(meas) ==
  LET a == meas[1]
      d == meas[2]
  IN <<d * CosTable[a + 1], d * SinTable[a + 1]>>

\* calc_gap (lines 145-154): math.hypot of the coordinate differences,
\* in 1/SCALE cm.
calc_gap_swapped(xy1, xy2) ==
  LET dx == xy1[1] - xy2[2]
      dy == xy1[2] - xy2[1]
  IN isqrt(dx * dx + dy * dy)

calc_gap(xy1, xy2) ==
  LET dx == xy1[1] - xy2[1]
      dy == xy1[2] - xy2[2]
  IN isqrt(dx * dx + dy * dy)

\* ------------------------------------------------------------------------
\* findholes (lines 79-101)

\* the for loop of lines 89-100 from position i on, hs and b being holes and
\* buf; the result is the pair of locals at loop exit
RECURSIVE findholes_loop_strict(_, _, _, _)
findholes_loop_strict(rs, i, hs, b) ==
  IF i > Len(rs) THEN [holes |-> hs, buf |-> b]
  ELSE IF rs[i][2] # INF
       THEN findholes_loop_strict(rs, i + 1,
                                  IF Len(b) > 3 THEN Append(hs, b) ELSE hs,
                                  <<>>)
       ELSE findholes_loop_strict(rs, i + 1, hs, Append(b, rs[i]))

RECURSIVE findholes_loop_merge(_, _, _, _)
findholes_loop_merge(rs, i, hs, b) ==
  IF i > Len(rs) THEN [holes |-> hs, buf |-> b]
  ELSE IF rs[i][2] # INF
       THEN IF Len(b) > 2
            THEN findholes_loop_merge(rs, i + 1, Append(hs, b), <<>>)
            ELSE findholes_loop_merge(rs, i + 1, hs, b)
       ELSE findholes_loop_merge(rs, i + 1, hs, Append(b, rs[i]))

RECURSIVE findholes_loop_keep(_, _, _, _)
findholes_loop_keep(rs, i, hs, b) ==
  IF i > Len(rs) THEN [holes |-> hs, buf |-> b]
  ELSE IF rs[i][2] # INF
       THEN IF Len(b) > 2
            THEN findholes_loop_keep(rs, i + 1, Append(hs, b), b)
            ELSE findholes_loop_keep(rs, i + 1, hs, <<>>)
       ELSE findholes_loop_keep(rs, i + 1, hs, Append(b, rs[i]))

RECURSIVE findholes_loop(_, _, _, _)
findholes_loop(rs, i, hs, b) ==
  IF i > Len(rs) THEN [holes |-> hs, buf |-> b]
  ELSE IF rs[i][2] # INF
       THEN findholes_loop(rs, i + 1,
                           IF Len(b) > 2 THEN Append(hs, b) ELSE hs,
                           <<>>)
       ELSE findholes_loop(rs, i + 1, hs, Append(b, rs[i]))

findholes_tail(rs) ==
  LET r == findholes_loop(rs, 1, <<>>, <<>>)
  IN IF Len(r.buf) > 2 THEN Append(r.holes, r.buf) ELSE r.holes

findholes(rs) == findholes_loop(rs, 1, <<>>, <<>>).holes

\* ------------------------------------------------------------------------
\* verify_holes (lines 59-77)

\* lines 69-76 for one hole: the gap tuple, or nothing
verify_hole_nofilter(hole) ==
  LET gap == calc_gap(calc_xy(hole[1]), calc_xy(last(hole)))
      middle_ang == (last(hole)[1] + hole[1][1]) \div 2
  IN <<<<middle_ang, gap>>>>

verify_hole(hole) ==
  LET xy1 == calc_xy(hole[1])
      xy2 == calc_xy(last(hole))
      gap == calc_gap(xy1, xy2)
      ang1 == hole[1][1]
      ang2 == last(hole)[1]
      middle_ang == (ang2 + ang1) \div 2
  IN IF gap >= CHASS_WID * SCALE THEN <<<<middle_ang, gap>>>> ELSE <<>>

\* the for loop of lines 68-76 from position i on, gs the gaps so far
RECURSIVE verify_holes_loop(_, _, _)
verify_holes_loop(hs, i, gs) ==
  IF i > Len(hs) THEN gs
  ELSE verify_holes_loop(hs, i + 1, gs \o verify_hole(hs[i]))

verify_holes(hs) == verify_holes_loop(hs, 1, <<>>)

\* ------------------------------------------------------------------------
\* turn_to (lines 46-57): the command it issues, <<function, argument>>
turn_to(a) ==
  LET degs == a - 90
  IN IF degs < 0 THEN <<"left_deg", degs>> ELSE <<"right_deg", degs>>

\* ------------------------------------------------------------------------
\* scan_room (lines 103-131)

\* math.degrees(math.atan(w / 20)) of line 119 in thousandths of a degree,
\* tabulated for the chassis widths of the model
degrees_atan(w, d) ==
  CASE 2 * w = d -> 26565
    [] 4 * w = 3 * d -> 36870
    [] w = d -> 45000

inc == degrees_atan(CHASS_WID, 20)

\* the step range(0,180,inc) of line 120 uses: the float truncated
range_step == inc \div 1000

\* values us_dist(15) returns: an error, an obstacle nearer than STOP_DIST,
\* an obstacle at STOP_DIST, nothing within INF
SensorVals == {-1, 10, 20, 250}

\* lines 125-128: the sample is appended as it is
in_range(d) == d < INF /\ d >= 0

\* line 129
ave_of(b) == fsum(b) \div Len(b)

\* ------------------------------------------------------------------------
\* The driver: main (lines 25-34), move (36-44), scan_room (103-131)

\* the geometry functions not called on their own
NoGeom ==
  /\ reading = <<0, 0>>
  /\ proj = <<0, 0>>
  /\ chord = 0

Init ==
  /\ NoGeom
  /\ pc = "main"
  /\ CHASS_WID \in ChassisWidths
  /\ x = 0
  /\ dist = 0
  /\ ang = 0
  /\ buf = <<>>
  /\ ret = <<>>
  /\ raw = <<>>
  /\ readings = <<>>
  /\ holes = <<>>
  /\ gaps = <<>>
  /\ angle = 0
  /\ cmds = <<>>

\* line 26 entering an iteration, line 27 calling move, line 37: fwd()
move_fwd ==
  /\ pc = "main"
  /\ x < REPEAT
  /\ cmds' = Append(cmds, <<"fwd", 0>>)
  /\ pc' = "move"
  /\ UNCHANGED <<geom, CHASS_WID, x, dist, ang, buf, ret, raw, readings, holes, gaps, angle>>

\* lines 39-43 when dist >= min_dist: sleep and poll again
move_sleep ==
  /\ pc = "move"
  /\ \E d \in SensorVals :
       /\ ~(d < STOP_DIST)
       /\ dist' = d
  /\ UNCHANGED <<geom, pc, CHASS_WID, x, ang, buf, ret, raw, readings, holes, gaps, angle, cmds>>

move_stop_at_min ==
  /\ pc = "move"
  /\ \E d \in SensorVals :
       /\ d <= STOP_DIST
       /\ dist' = d
  /\ cmds' = Append(cmds, <<"stop", 0>>)
  /\ pc' = "scan_room"
  /\ UNCHANGED <<geom, CHASS_WID, x, ang, buf, ret, raw, readings, holes, gaps, angle>>

move_stop_no_stop ==
  /\ pc = "move"
  /\ \E d \in SensorVals :
       /\ d < STOP_DIST
       /\ dist' = d
  /\ pc' = "scan_room"
  /\ UNCHANGED <<geom, CHASS_WID, x, ang, buf, ret, raw, readings, holes, gaps, angle, cmds>>

\* lines 39-44 when dist < min_dist: stop(), return; line 28 calls scan_room
move_stop ==
  /\ pc = "move"
  /\ \E d \in SensorVals :
       /\ d < STOP_DIST
       /\ dist' = d
  /\ cmds' = Append(cmds, <<"stop", 0>>)
  /\ pc' = "scan_room"
  /\ UNCHANGED <<geom, CHASS_WID, x, ang, buf, ret, raw, readings, holes, gaps, angle>>

\* lines 118-120: ret = [], inc, and range(0,180,inc) with the step truncated
scan_range ==
  /\ pc = "scan_room"
  /\ ret' = <<>>
  /\ ang' = 0
  /\ pc' = "scan_for"
  /\ UNCHANGED <<geom, CHASS_WID, x, dist, buf, raw, readings, holes, gaps, angle, cmds>>

\* lines 118-120: range(0,180,inc) raising TypeError on the float step
scan_range_raise ==
  /\ pc = "scan_room"
  /\ ret' = <<>>
  /\ pc' = "raised"
  /\ UNCHANGED <<geom, CHASS_WID, x, dist, ang, buf, raw, readings, holes, gaps, angle, cmds>>

\* lines 120-122: next angle of the range, servo(ang), buf=[]
scan_servo ==
  /\ pc = "scan_for"
  /\ ang < 180
  /\ cmds' = Append(cmds, <<"servo", ang>>)
  /\ buf' = <<>>
  /\ raw' = <<>>
  /\ pc' = "scan_sample"
  /\ UNCHANGED <<geom, CHASS_WID, x, dist, ang, ret, readings, holes, gaps, angle>>

\* lines 123-128, a sample that is not in range: buf.append(INF)
scan_sample_inf ==
  /\ pc = "scan_sample"
  /\ Len(buf) < SAMPLES
  /\ \E d \in SensorVals :
       /\ ~in_range(d)
       /\ dist' = d
       /\ raw' = Append(raw, d)
  /\ buf' = Append(buf, INF)
  /\ UNCHANGED <<geom, pc, CHASS_WID, x, ang, ret, readings, holes, gaps, angle, cmds>>

\* lines 123-126, a sample in range: buf.appen(dist) raises AttributeError,
\* which nothing catches
scan_sample_raise ==
  /\ pc = "scan_sample"
  /\ Len(buf) < SAMPLES
  /\ \E d \in SensorVals :
       /\ in_range(d)
       /\ dist' = d
       /\ raw' = Append(raw, d)
  /\ pc' = "raised"
  /\ UNCHANGED <<geom, CHASS_WID, x, ang, buf, ret, readings, holes, gaps, angle, cmds>>

\* lines 129-130 after the last sample
scan_ave ==
  /\ pc = "scan_sample"
  /\ Len(buf) = SAMPLES
  /\ ret' = Append(ret, <<ang, ave_of(buf)>>)
  /\ ang' = ang + range_step
  /\ pc' = "scan_for"
  /\ UNCHANGED <<geom, CHASS_WID, x, dist, buf, raw, readings, holes, gaps, angle, cmds>>

\* line 131 when the range is exhausted; line 28 binds readings
scan_return ==
  /\ pc = "scan_for"
  /\ ~(ang < 180)
  /\ readings' = ret
  /\ pc' = "evaluate"
  /\ UNCHANGED <<geom, CHASS_WID, x, dist, ang, buf, ret, raw, holes, gaps, angle, cmds>>

\* line 34: the argument of turn_to
chosen_last(gs) == gs[Len(gs)][1]

chosen(gs) == gs[1][1]

\* lines 29-34 and the loop header of line 26: exit() when there is no gap,
\* else turn_to the chosen gap and go to the next iteration, if there is one
evaluate_continue ==
  /\ pc = "evaluate"
  /\ holes' = findholes(readings)
  /\ gaps' = verify_holes(holes')
  /\ x' = x + 1
  /\ pc' = IF x + 1 < REPEAT THEN "main" ELSE "halted"
  /\ IF Len(gaps') = 0
       THEN UNCHANGED <<angle, cmds>>
       ELSE /\ angle' = chosen(gaps')
            /\ cmds' = Append(cmds, turn_to(angle'))
  /\ UNCHANGED <<geom, CHASS_WID, dist, ang, buf, ret, raw, readings>>

evaluate ==
  /\ pc = "evaluate"
  /\ holes' = findholes(readings)
  /\ gaps' = verify_holes(holes')
  /\ IF Len(gaps') = 0
       THEN /\ pc' = "halted"
            /\ UNCHANGED <<x, angle, cmds>>
       ELSE /\ angle' = chosen(gaps')
            /\ cmds' = Append(cmds, turn_to(angle'))
            /\ x' = x + 1
            /\ pc' = IF x + 1 < REPEAT THEN "main" ELSE "halted"
  /\ UNCHANGED <<geom, CHASS_WID, dist, ang, buf, ret, raw, readings>>

Next ==
  \/ move_fwd
  \/ move_sleep
  \/ move_stop
  \/ scan_range
  \/ scan_range_raise
  \/ scan_servo
  \/ scan_sample_inf
  \/ scan_sample_raise
  \/ scan_ave
  \/ scan_return
  \/ evaluate

Spec == Init /\ [][Next]_vars

\* ------------------------------------------------------------------------
\* Inputs of the functions taken on their own

\* distances of a reading handed to findholes: an obstacle, or INF
Dists == {60, INF}

\* angular steps of the sweeps handed to findholes and to main's line 29
SweepSteps == {2, 20}

\* the sweeps of n readings at angles 0, step, 2*step, ...
Sweeps(step, n) ==
  { [i \in 1..n |-> <<(i - 1) * step, f[i]>>] : f \in [1..n -> Dists] }

\* a run of n INF readings from angle a0 on, step apart
Run(a0, step, n) == [i \in 1..n |-> <<a0 + (i - 1) * step, INF>>]

HoleSet == { Run(a0, step, n) : a0 \in {0, 45, 90}, step \in {1, 2, 20}, n \in 3..4 }

HoleLists == UNION { [1..n -> HoleSet] : n \in 0..MaxHoles }

Idle ==
  /\ NoGeom
  /\ x = 0
  /\ dist = 0
  /\ ang = 0
  /\ buf = <<>>
  /\ ret = <<>>
  /\ raw = <<>>
  /\ angle = 0
  /\ cmds = <<>>

\* findholes called on any sweep
InitFind ==
  /\ pc = "call_findholes"
  /\ CHASS_WID = 15
  /\ \E step \in SweepSteps, n \in 0..MaxLen : readings \in Sweeps(step, n)
  /\ holes = <<>>
  /\ gaps = <<>>
  /\ Idle

call_findholes ==
  /\ pc = "call_findholes"
  /\ holes' = findholes(readings)
  /\ pc' = "ret_findholes"
  /\ UNCHANGED <<geom, CHASS_WID, x, dist, ang, buf, ret, raw, readings, gaps, angle, cmds>>

SpecFind == InitFind /\ [][call_findholes]_vars

\* verify_holes called on any list of runs
InitVerify ==
  /\ pc = "call_verify_holes"
  /\ CHASS_WID \in ChassisWidths
  /\ readings = <<>>
  /\ holes \in HoleLists
  /\ gaps = <<>>
  /\ Idle

call_verify_holes ==
  /\ pc = "call_verify_holes"
  /\ gaps' = verify_holes(holes)
  /\ pc' = "ret_verify_holes"
  /\ UNCHANGED <<geom, CHASS_WID, x, dist, ang, buf, ret, raw, readings, holes, angle, cmds>>

SpecVerify == InitVerify /\ [][call_verify_holes]_vars

\* turn_to called on any angle of the sweep range
InitTurn ==
  /\ NoGeom
  /\ pc = "call_turn_to"
  /\ CHASS_WID = 15
  /\ x = 0
  /\ dist = 0
  /\ ang = 0
  /\ buf = <<>>
  /\ ret = <<>>
  /\ raw = <<>>
  /\ readings = <<>>
  /\ holes = <<>>
  /\ gaps = <<>>
  /\ angle \in 0..180
  /\ cmds = <<>>

call_turn_to ==
  /\ pc = "call_turn_to"
  /\ cmds' = Append(cmds, turn_to(angle))
  /\ pc' = "ret_turn_to"
  /\ UNCHANGED <<geom, CHASS_WID, x, dist, ang, buf, ret, raw, readings, holes, gaps, angle>>

SpecTurn == InitTurn /\ [][call_turn_to]_vars

\* main at line 29 in any iteration, scan_room having returned any sweep
InitEval ==
  /\ NoGeom
  /\ pc = "evaluate"
  /\ CHASS_WID \in ChassisWidths
  /\ x \in 0..(REPEAT - 1)
  /\ dist = 0
  /\ ang = 0
  /\ buf = <<>>
  /\ ret = <<>>
  /\ raw = <<>>
  /\ \E step \in SweepSteps : readings \in Sweeps(step, MaxLen)
  /\ holes = <<>>
  /\ gaps = <<>>
  /\ angle = 0
  /\ cmds = <<>>

SpecEval == InitEval /\ [][Next]_vars

\* the driver, every read of the sensor in move eventually below STOP_DIST
FairSpec == Init /\ [][Next]_vars /\ WF_vars(Next) /\ SF_vars(move_stop)

\* distances of a reading handed to calc_xy
GeomDists == {0, 10, 60, INF}

\* calc_xy called on any reading, then calc_gap on that projection and the
\* projection of the same reading
InitGeom ==
  /\ pc = "call_calc_xy"
  /\ CHASS_WID = 15
  /\ readings = <<>>
  /\ holes = <<>>
  /\ gaps = <<>>
  /\ x = 0
  /\ dist = 0
  /\ ang = 0
  /\ buf = <<>>
  /\ ret = <<>>
  /\ raw = <<>>
  /\ angle = 0
  /\ cmds = <<>>
  /\ reading \in (0..180) \X GeomDists
  /\ proj = <<0, 0>>
  /\ chord = -1

call_calc_xy ==
  /\ pc = "call_calc_xy"
  /\ proj' = calc_xy(reading)
  /\ pc' = "call_calc_gap"
  /\ UNCHANGED <<CHASS_WID, x, dist, ang, buf, ret, raw, readings, holes, gaps, angle, cmds, reading, chord>>

call_calc_gap ==
  /\ pc = "call_calc_gap"
  /\ chord' = calc_gap(proj, calc_xy(reading))
  /\ pc' = "ret_calc_gap"
  /\ UNCHANGED <<CHASS_WID, x, dist, ang, buf, ret, raw, readings, holes, gaps, angle, cmds, reading, proj>>

NextGeom ==
  \/ call_calc_xy
  \/ call_calc_gap

SpecGeom == InitGeom /\ [][NextGeom]_vars

\* ------------------------------------------------------------------------
\* Properties of findholes (SpecFind)

IsInf(rs, i) == rs[i][2] = INF

\* positions i..j of rs are a maximal run of INF readings
MaximalRun(rs, i, j) ==
  /\ 1 <= i /\ i <= j /\ j <= Len(rs)
  /\ \A k \in i..j : IsInf(rs, k)
  /\ i = 1 \/ ~IsInf(rs, i - 1)
  /\ j = Len(rs) \/ ~IsInf(rs, j + 1)

\* a maximal run of at least 3 INF readings followed by a non-INF reading
ClosedRun(rs, i, j) ==
  /\ MaximalRun(rs, i, j)
  /\ j - i + 1 >= 3
  /\ j < Len(rs)

\* the results whose boundary readings are those of positions i and j
Matching(rs, hs, i, j) ==
  { k \in 1..Len(hs) : hs[k][1] = rs[i] /\ last(hs[k]) = rs[j] }

\* C1: every maximal run of at least 3 INF readings that a non-INF reading
\* follows is in the result of findholes exactly once, reading for reading.
C1_ClosedRunsFound ==
  pc = "ret_findholes" =>
    \A i \in 1..Len(readings), j \in 1..Len(readings) :
      ClosedRun(readings, i, j) =>
        /\ Cardinality(Matching(readings, holes, i, j)) = 1
        /\ \A k \in Matching(readings, holes, i, j) :
             holes[k] = SubSeq(readings, i, j)

\* findholes has returned for a sweep with two such runs, the first of
\* exactly 3 readings
C1_Witness ==
  /\ pc = "ret_findholes"
  /\ Len(readings) >= 8
  /\ ClosedRun(readings, 1, 3)
  /\ \E i \in 5..Len(readings), j \in 5..Len(readings) : ClosedRun(readings, i, j)
  /\ Len(holes) = 2

\* C2: a run of INF readings that reaches the last reading of the sweep is
\* never in the result, and a sweep of INF readings only gives no run.
C2_OpenRunExcluded ==
  pc = "ret_findholes" =>
    /\ \A i \in 1..Len(readings) :
         MaximalRun(readings, i, Len(readings)) =>
           \A k \in 1..Len(holes) :
             \A m \in 1..Len(holes[k]) :
               \A n \in i..Len(readings) : holes[k][m] # readings[n]
    /\ (\A i \in 1..Len(readings) : IsInf(readings, i)) => holes = <<>>

\* findholes has returned for a sweep that ends in a run of at least 3 INF
\* readings and holds a closed run before it
C2_Witness ==
  /\ pc = "ret_findholes"
  /\ \E i \in 1..Len(readings) :
       /\ MaximalRun(readings, i, Len(readings))
       /\ Len(readings) - i + 1 >= 3
  /\ Len(holes) = 1

NoThreeInARow(rs) ==
  \A i \in 1..(Len(rs) - 2) :
    ~(IsInf(rs, i) /\ IsInf(rs, i + 1) /\ IsInf(rs, i + 2))

\* C3: a sweep without 3 INF readings at consecutive positions gives no run:
\* runs of 1 or 2 are dropped, not joined across an obstacle.
C3_ShortRunsDropped ==
  pc = "ret_findholes" =>
    (NoThreeInARow(readings) => holes = <<>>)

\* findholes has returned for a sweep in which two INF readings, an obstacle,
\* two INF readings and an obstacle follow each other, and no 3 INF readings
\* are consecutive
C3_Witness ==
  /\ pc = "ret_findholes"
  /\ NoThreeInARow(readings)
  /\ \E i \in 1..(Len(readings) - 5) :
       /\ IsInf(readings, i) /\ IsInf(readings, i + 1)
       /\ ~IsInf(readings, i + 2)
       /\ IsInf(readings, i + 3) /\ IsInf(readings, i + 4)
       /\ ~IsInf(readings, i + 5)

\* ------------------------------------------------------------------------
\* Properties of verify_holes (SpecVerify)

\* square of the chord between the projections of the first and the last
\* reading of a run, in 1/SCALE cm
ChordSq(hole) ==
  LET x1 == hole[1][2] * CosTable[hole[1][1] + 1]
      y1 == hole[1][2] * SinTable[hole[1][1] + 1]
      x2 == last(hole)[2] * CosTable[last(hole)[1] + 1]
      y2 == last(hole)[2] * SinTable[last(hole)[1] + 1]
  IN (x1 - x2) * (x1 - x2) + (y1 - y2) * (y1 - y2)

\* the run is at least as wide as the chassis
WideEnough(hole) == ChordSq(hole) >= (CHASS_WID * SCALE) * (CHASS_WID * SCALE)

\* w is the chord of the run, to the unit of the fixed point
IsWidthOf(w, hole) == w * w <= ChordSq(hole) /\ ChordSq(hole) < (w + 1) * (w + 1)

\* C4: every gap verify_holes returns is the chord of one of the runs and is
\* at least CHASS_WID wide; a run narrower than CHASS_WID gives no gap.
C4_GapsAreWide ==
  pc = "ret_verify_holes" =>
    /\ \A k \in 1..Len(gaps) :
         /\ gaps[k][2] >= CHASS_WID * SCALE
         /\ \E i \in 1..Len(holes) :
              IsWidthOf(gaps[k][2], holes[i]) /\ WideEnough(holes[i])
    /\ (\A i \in 1..Len(holes) : ~WideEnough(holes[i])) => gaps = <<>>

\* verify_holes has returned for a narrow run followed by a wide one, and kept
\* only the wide one
C4_Witness ==
  /\ pc = "ret_verify_holes"
  /\ Len(holes) = 2
  /\ ~WideEnough(holes[1])
  /\ WideEnough(holes[2])
  /\ Len(gaps) = 1

\* C5 as stated: the gaps are, in input order, one per run that passes the
\* width test, each with the exact midpoint of the boundary angles.
C5_ExactMidpoints ==
  pc = "ret_verify_holes" =>
    LET passing == SelectSeq(holes, WideEnough)
    IN /\ Len(gaps) = Len(passing)
       /\ \A k \in 1..Len(gaps) :
            /\ IsWidthOf(gaps[k][2], passing[k])
            /\ 2 * gaps[k][1] = passing[k][1][1] + last(passing[k])[1]

\* ------------------------------------------------------------------------
\* Properties of the driver

IsTurn(c) == c[1] \in {"left_deg", "right_deg"}

NumberOf(op) == Cardinality({ i \in 1..Len(cmds) : cmds[i][1] = op })

\* C6: a step of the evaluation that finds no verified gap ends the program
\* there: no command is issued by it, the loop variable stays, and nothing
\* happens after the halt, whatever is left of the REPEAT iterations.
C6_HaltOnNoGap ==
  [][ /\ (pc = "evaluate" /\ gaps' = <<>>) =>
           (pc' = "halted" /\ cmds' = cmds /\ x' = x)
      /\ pc # "halted" ]_vars

\* the first iteration found no gap: halted with one fwd, no turn, x still 0
C6_Witness ==
  /\ pc = "halted"
  /\ x = 0
  /\ gaps = <<>>
  /\ Len(readings) > 0
  /\ NumberOf("fwd") = 1
  /\ \A i \in 1..Len(cmds) : ~IsTurn(cmds[i])

\* C7 as stated: at most REPEAT iterations, and every execution in which
\* each move eventually reads less than STOP_DIST reaches the halt.
C7_EventuallyHalted ==
  [](x <= REPEAT) /\ <>(pc = "halted")

\* ------------------------------------------------------------------------
\* Properties of main's choice (SpecEval)

\* positions i..j of rs are a run findholes finds and verify_holes keeps
VerifiedRun(rs, i, j) == ClosedRun(rs, i, j) /\ WideEnough(SubSeq(rs, i, j))

VerifiedRuns(rs) ==
  { p \in (1..Len(rs)) \X (1..Len(rs)) : VerifiedRun(rs, p[1], p[2]) }

\* C8: when the sweep holds a verified gap, the evaluation issues one turn,
\* turn_to of the center angle of the verified run that starts at the
\* smallest angle.
C8_TurnToFirstGap ==
  [][ (pc = "evaluate" /\ VerifiedRuns(readings) # {}) =>
        \E p \in VerifiedRuns(readings) :
          /\ \A q \in VerifiedRuns(readings) : p[1] <= q[1]
          /\ LET run == SubSeq(readings, p[1], p[2])
             IN /\ IsWidthOf(gaps'[1][2], run)
                /\ angle' = (run[1][1] + last(run)[1]) \div 2
                /\ angle' = gaps'[1][1]
                /\ cmds' = Append(cmds, turn_to(angle')) ]_vars

\* the evaluation of a sweep with two verified gaps has issued its turn
C8_Witness ==
  /\ Len(gaps) >= 2
  /\ gaps[1][1] # gaps[2][1]
  /\ Len(cmds) >= 1
  /\ IsTurn(cmds[1])
  /\ cmds[1] = turn_to(gaps[1][1])

\* ------------------------------------------------------------------------
\* Properties of turn_to (SpecTurn)

\* C9 as stated: one command, a left turn by |angle - 90| when angle - 90 is
\* negative, a right turn by angle - 90 when it is positive, never a
\* negative argument.
C9_TurnMagnitude ==
  pc = "ret_turn_to" =>
    /\ Len(cmds) = 1
    /\ angle - 90 < 0 => cmds[1] = <<"left_deg", 90 - angle>>
    /\ angle - 90 > 0 => cmds[1] = <<"right_deg", angle - 90>>
    /\ cmds[1][2] >= 0

\* ------------------------------------------------------------------------
\* Properties of scan_room (Spec)

\* the mapping of lines 125-128 as the description of scan_room has it
Mapped(d) == IF d < 0 \/ d >= INF THEN INF ELSE d

\* C10 as stated: every sample taken at the current angle is in buf, mapped;
\* the reading recorded for an angle is the mean of its mapped samples; the
\* sweep returned has one reading for every angle the sensor was turned to.
C10_MeanOfMappedSamples ==
  /\ Len(buf) = Len(raw)
  /\ \A i \in 1..Len(raw) : buf[i] = Mapped(raw[i])
  /\ (pc = "scan_for" /\ Len(ret) > 0) =>
       /\ Len(raw) = SAMPLES
       /\ last(ret)[2] * SAMPLES = fsum([i \in 1..SAMPLES |-> Mapped(raw[i])])
  /\ pc = "evaluate" => Len(readings) = NumberOf("servo")

\* C11 as stated: once a read at the current angle has failed (a negative
\* sample), the scan is not ended there, and the reading it records for the
\* angle is INF.
C11_FailedReadGivesInf ==
  (\E i \in 1..Len(raw) : raw[i] < 0) =>
    /\ pc # "raised"
    /\ (pc = "scan_for" /\ Len(ret) > 0) => last(ret)[2] = INF

\* C12 as stated: a sweep scan_room returns starts at angle 0, its angles
\* increase by the increment inc from one reading to the next, and it has
\* 180/inc + 1 readings.
C12_SweepAngles ==
  (pc = "evaluate" /\ NumberOf("servo") > 0) =>
    /\ Len(readings) > 0
    /\ readings[1][1] = 0
    /\ \A i \in 1..(Len(readings) - 1) :
         /\ readings[i][1] < readings[i + 1][1]
         /\ 1000 * (readings[i + 1][1] - readings[i][1]) = inc
    /\ Len(readings) = (180 * 1000) \div inc + 1

\* C13 as stated: the increment of the scan is half of the angle the chassis
\* width subtends at STOP_DIST.
C13_HalfAngleIncrement ==
  pc \in {"scan_for", "scan_sample"} =>
    2 * inc = degrees_atan(CHASS_WID, STOP_DIST)

\* ------------------------------------------------------------------------
\* Properties of calc_xy and calc_gap (SpecGeom)

\* C14: the chord between the projection of a reading and the projection of
\* the same reading is 0.
C14_ChordToItselfIsZero ==
  pc = "ret_calc_gap" => chord = 0

\* calc_gap has returned for a reading off both axes and away from the origin
C14_Witness ==
  /\ pc = "ret_calc_gap"
  /\ reading = <<30, INF>>
  /\ proj[1] > 0 /\ proj[2] > 0 /\ proj[1] # proj[2]
  /\ chord = 0

\* ------------------------------------------------------------------------
\* Properties of move in the driver

\* the command before position i of the log is the stop of the latest fwd
StoppedBefore(log, i) ==
  \E j \in 1..(i - 1) :
    /\ log[j][1] = "stop"
    /\ \A k \in (j + 1)..(i - 1) : log[k][1] # "fwd"

\* C15: move is left only by a step that reads a distance below STOP_DIST
\* and issues stop(); a read of STOP_DIST or more keeps it polling without
\* any command; every servo command has the stop of the latest fwd before it.
C15_StopBeforeScan ==
  [][ /\ (pc = "move" /\ pc' # "move") =>
           /\ dist' < STOP_DIST
           /\ cmds' = Append(cmds, <<"stop", 0>>)
      /\ (pc = "move" /\ dist' >= STOP_DIST) =>
           /\ pc' = "move"
           /\ cmds' = cmds
      /\ \A i \in 1..Len(cmds') :
           cmds'[i][1] = "servo" => StoppedBefore(cmds', i) ]_vars

\* the first scan has begun: fwd, stop, then the first servo command
C15_Witness ==
  /\ pc = "scan_sample"
  /\ Len(cmds) = 3
  /\ cmds[1][1] = "fwd"
  /\ cmds[2][1] = "stop"
  /\ cmds[3] = <<"servo", 0>>

\* ------------------------------------------------------------------------
\* Separation of the runs of findholes (SpecFind)

\* the positions i..j of rs that the run h is, if it is a stretch of rs
Stretches(rs, h) ==
  { p \in (1..Len(rs)) \X (1..Len(rs)) :
      p[1] <= p[2] /\ h = SubSeq(rs, p[1], p[2]) }

\* C16: every run returned is a stretch of INF readings of the sweep, and
\* between the last reading of a run and the first of the next run there is
\* a non-INF reading of the sweep: ascending, disjoint, not adjacent.
C16_RunsSeparated ==
  pc = "ret_findholes" =>
    /\ \A k \in 1..Len(holes) :
         /\ Stretches(readings, holes[k]) # {}
         /\ \A m \in 1..Len(holes[k]) : holes[k][m][2] = INF
    /\ \A k \in 1..(Len(holes) - 1) :
         \A p \in Stretches(readings, holes[k]) :
           \A q \in Stretches(readings, holes[k + 1]) :
             /\ p[2] < q[1]
             /\ \E n \in (p[2] + 1)..(q[1] - 1) : ~IsInf(readings, n)

\* findholes has returned two runs that one non-INF reading separates
C16_Witness ==
  /\ pc = "ret_findholes"
  /\ Len(holes) = 2
  /\ \E n \in 2..(Len(readings) - 1) :
       /\ ~IsInf(readings, n)
       /\ last(holes[1]) = readings[n - 1]
       /\ holes[2][1] = readings[n + 1]

\* ------------------------------------------------------------------------
\* Failed reads and valid samples

\* C17 as stated: a failed read (a negative value) in move's polling loop is
\* taken as INF: it does not stop the platform and does not start the scan.
C17_FailedReadKeepsPolling ==
  [][ (pc = "move" /\ dist' < 0) => (pc' = "move" /\ cmds' = cmds) ]_vars

\* C18 as stated: the reading recorded for an angle is INF exactly when every
\* sample of the angle was mapped to INF; an angle with a valid sample gets
\* a reading other than INF (the scan is not ended by the sample), and that
\* reading closes the run findholes is collecting.
C18_InfOnlyIfAllSamplesInf ==
  /\ (pc = "scan_for" /\ Len(ret) > 0) =>
       (last(ret)[2] = INF <=> \A i \in 1..Len(raw) : Mapped(raw[i]) = INF)
  /\ (\E i \in 1..Len(raw) : Mapped(raw[i]) # INF) => pc # "raised"
  /\ pc = "halted" =>
       \A n \in 1..Len(readings) :
         ~IsInf(readings, n) =>
           \A k \in 1..Len(holes) :
             \A m \in 1..Len(holes[k]) : holes[k][m] # readings[n]

\* ------------------------------------------------------------------------
\* The drive-forward command

\* fwd() is in effect: a fwd of the log has no stop after it
Driving ==
  \E i \in 1..Len(cmds) :
    /\ cmds[i][1] = "fwd"
    /\ \A j \in (i + 1)..Len(cmds) : cmds[j][1] # "stop"

\* C19: fwd() is in effect only while move polls; the command that follows a
\* fwd is always stop, so no servo or turn command and no end of the program
\* comes while the platform drives.
C19_ForwardOnlyInMove ==
  /\ pc # "move" => ~Driving
  /\ \A i \in 1..(Len(cmds) - 1) :
       cmds[i][1] = "fwd" => cmds[i + 1][1] = "stop"

\* after a turn the platform drove, was stopped and scanned, and the program
\* halted
C19_Witness ==
  /\ pc = "halted"
  /\ Len(cmds) >= 4
  /\ IsTurn(cmds[1])
  /\ cmds[2][1] = "fwd"
  /\ cmds[3][1] = "stop"
  /\ cmds[Len(cmds)][1] = "servo"

====
